---- MODULE Spec2Model ----
(***************************************************************************)
(* Model of the multi-pass record matcher of backend/data_processing.py    *)
(* (smart_fuzzy_search): the numeric candidate filter, the similarity      *)
(* scorer, the ranker and the strict -> relaxed -> none fallback loop,     *)
(* and of its callers: run_full_analysis, make_prediction of               *)
(* backend/inference.py and the POST /building-data handler of             *)
(* backend/app.py.                                                         *)
(*                                                                         *)
(* Values.  A cell of the table or of the query is an optional value:      *)
(* <<>> is the null value (NaN / None, pd.isna) and <<v>> is the value v.  *)
(* The query is a function whose DOMAIN is query_row.index, so a column    *)
(* that is absent from the query is simply not in the DOMAIN.              *)
(* Real numbers are exact rationals <<n, d>> with d > 0; the score NaN is  *)
(* <<>>.  Weights are tenths (7 is 0.7).                                   *)
(***************************************************************************)
EXTENDS Integers, Sequences, FiniteSets, TLC

VARIABLES df, query_row, threshold, limit, numeric_weight, string_weight,
          pc, tried, result, returned_by,
          data, characteristics_csv, time_series_csv, ts_bldg_ids,
          hpc, analyses, predict_calls, response

vars == <<df, query_row, threshold, limit, numeric_weight, string_weight,
          pc, tried, result, returned_by,
          data, characteristics_csv, time_series_csv, ts_bldg_ids,
          hpc, analyses, predict_calls, response>>

inputs == <<df, query_row, threshold, limit, numeric_weight, string_weight>>

\* the state of one POST /building-data request: the JSON body, the two data
\* files, the position of the handler, the analyses make_prediction has run,
\* the calls of pipeline.predict_df and the response
request == <<data, characteristics_csv, time_series_csv, ts_bldg_ids,
             hpc, analyses, predict_calls, response>>

search == <<query_row, threshold, limit, numeric_weight, string_weight,
            pc, tried, result, returned_by>>

----------------------------------------------------------------------------
(* Columns *)

\* The searchable columns, split by the runtime dtype of the table column.
\* in.bedrooms is an int64 column, in.sqft..ft2 a float64 column (it may hold
\* NaN), in.state and in.heating_fuel are object (text) columns.
IntegerCols == {"bedrooms"}
RealCols == {"sqft"}
NumericCols == <<"bedrooms", "sqft">>
TextCols == <<"state", "heating_fuel">>
SEARCHABLE_COLUMNS == {"bedrooms", "sqft", "state", "heating_fuel"}

Null == <<>>
IsNa(v) == v = Null

----------------------------------------------------------------------------
(* Bounds and input sets *)

MaxRows == 2
MaxLimit == 2

\* <<threshold, numeric_weight, string_weight>>, the weights in tenths: the
\* defaults, two lower thresholds, and the weights exchanged
SearchParams == {<<70, 7, 3>>, <<30, 7, 3>>, <<-50, 7, 3>>, <<70, 3, 7>>}

----------------------------------------------------------------------------
(* Exact arithmetic on scores *)

Abs(x) == IF x < 0 THEN -x ELSE x
Min2(a, b) == IF a <= b THEN a ELSE b

RAdd(a, b) == <<a[1] * b[2] + b[1] * a[2], a[2] * b[2]>>
RGeq(a, b) == a[1] * b[2] >= b[1] * a[2]
RGt(a, b) == a[1] * b[2] > b[1] * a[2]
REq(a, b) == a[1] * b[2] = b[1] * a[2]

RECURSIVE RSum(_)
RSum(s) == IF s = <<>> THEN <<0, 1>> ELSE RAdd(Head(s), RSum(Tail(s)))

\* np.mean of a list: NaN as soon as one element is NaN, and NaN for the
\* empty list
np_mean(s) ==
    IF s = <<>> \/ \E i \in 1..Len(s) : IsNa(s[i]) THEN Null
    ELSE LET t == RSum(s) IN <<t[1], t[2] * Len(s)>>

----------------------------------------------------------------------------
(* Candidate filter: data_processing.py lines 23-45 *)

Indices(t) == 1..Len(t)

\* the row indices of a result list, the elements of a list
RowIdx(s) == {s[k].idx : k \in 1..Len(s)}
SeqSet(s) == {s[k] : k \in 1..Len(s)}

\* numeric_cols_in_query: the numeric columns that are in query_row.index
\* (a column whose query value is NaN is in the index and so in this list)
numeric_cols_in_query(q) == SelectSeq(NumericCols, LAMBDA c : c \in DOMAIN q)

\* text_cols_in_query
text_cols_in_query(q) == SelectSeq(TextCols, LAMBDA c : c \in DOMAIN q)

\* band_mask with the integer tolerances of the two modes exchanged
band_mask_swapped(mode, col, v, q) ==
    IF mode = "none" THEN TRUE
    ELSE IF IsNa(v) THEN FALSE
    ELSE IF mode = "strict" THEN
        IF col \in IntegerCols
        THEN v[1] >= q[1] - 2 /\ v[1] <= q[1] + 2
        ELSE 10 * v[1] >= 9 * q[1] /\ 10 * v[1] <= 11 * q[1]
    ELSE
        IF col \in IntegerCols
        THEN v[1] >= q[1] - 1 /\ v[1] <= q[1] + 1
        ELSE 100 * v[1] >= 75 * q[1] /\ 100 * v[1] <= 125 * q[1]

\* The mask of one column for one row.  A comparison with a NaN cell is False.
\* The real-valued bands q*0.9 <= v <= q*1.1 and q*0.75 <= v <= q*1.25 are
\* written without division.
band_mask(mode, col, v, q) ==
    IF mode = "none" THEN TRUE
    ELSE IF IsNa(v) THEN FALSE
    ELSE IF mode = "strict" THEN
        IF col \in IntegerCols
        THEN v[1] >= q[1] - 1 /\ v[1] <= q[1] + 1
        ELSE 10 * v[1] >= 9 * q[1] /\ 10 * v[1] <= 11 * q[1]
    ELSE
        IF col \in IntegerCols
        THEN v[1] >= q[1] - 2 /\ v[1] <= q[1] + 2
        ELSE 100 * v[1] >= 75 * q[1] /\ 100 * v[1] <= 125 * q[1]

\* numeric_mask without the skip of a NaN query value: the comparisons of
\* the band with NaN are all False
RECURSIVE numeric_mask_noskip(_, _, _, _)
numeric_mask_noskip(mode, cols, row, q) ==
    IF cols = <<>> THEN TRUE
    ELSE LET col == Head(cols)
             q_val == q[col]
             mask == IF IsNa(q_val) THEN mode = "none"
                     ELSE band_mask(mode, col, row[col], q_val)
         IN  mask /\ numeric_mask_noskip(mode, Tail(cols), row, q)

\* The loop of lines 26-43 for one row: numeric_mask starts True and is and-ed
\* with the mask of every column of cols whose query value is not NaN.
RECURSIVE numeric_mask(_, _, _, _)
numeric_mask(mode, cols, row, q) ==
    IF cols = <<>> THEN TRUE
    ELSE LET col == Head(cols)
             q_val == q[col]
             mask == IF IsNa(q_val) THEN TRUE
                     ELSE band_mask(mode, col, row[col], q_val)
         IN  mask /\ numeric_mask(mode, Tail(cols), row, q)

\* filtered_df = df[numeric_mask], as the sequence of kept row indices in
\* table order
filtered_df(mode, t, q) ==
    SelectSeq([i \in Indices(t) |-> i],
              LAMBDA i : numeric_mask(mode, numeric_cols_in_query(q), t[i], q))

----------------------------------------------------------------------------
(* Similarity scorer: lines 53-82 *)

\* fuzz.WRatio of rapidfuzz on the strings of the model: 100 for equal
\* strings, 90 for "FL" against "FLA" (ratio 80, partial ratio 100 scaled by
\* 0.9 as the length ratio is 1.5), 0 for strings with no common character.
WRatio(a, b) ==
    IF a = b THEN 100
    ELSE IF {a, b} = {"FL", "FLA"} THEN 90
    ELSE 0

\* text_similarities without the pd.notna test: a null cell scores 0
RECURSIVE text_similarities_nonull(_, _, _)
text_similarities_nonull(cols, row, q) ==
    IF cols = <<>> THEN <<>>
    ELSE LET col == Head(cols)
             rest == text_similarities_nonull(Tail(cols), row, q)
         IN  IF ~IsNa(row[col]) /\ ~IsNa(q[col])
             THEN <<<<WRatio(q[col][1], row[col][1]), 1>>>> \o rest
             ELSE <<<<0, 1>>>> \o rest

\* text_similarities of one row: one entry per text column of the query that
\* is not null in the row and in the query
RECURSIVE text_similarities(_, _, _)
text_similarities(cols, row, q) ==
    IF cols = <<>> THEN <<>>
    ELSE LET col == Head(cols)
             rest == text_similarities(Tail(cols), row, q)
         IN  IF ~IsNa(row[col]) /\ ~IsNa(q[col])
             THEN <<<<WRatio(q[col][1], row[col][1]), 1>>>> \o rest
             ELSE rest

\* df[col].min() and df[col].max() skip NaN cells
ColVals(t, col) == {t[i][col][1] : i \in {j \in Indices(t) : ~IsNa(t[j][col])}}
col_min(t, col) == CHOOSE m \in ColVals(t, col) : \A x \in ColVals(t, col) : m <= x
col_max(t, col) == CHOOSE m \in ColVals(t, col) : \A x \in ColVals(t, col) : m >= x

\* the test col_max > col_min left out: every column that holds a value
has_range_unchecked(t, col) == ColVals(t, col) # {}

\* col_max > col_min; False when the column holds no value (NaN > NaN)
has_range(t, col) ==
    ColVals(t, col) # {} /\ col_max(t, col) > col_min(t, col)

\* 100 * abs(normalized_row - normalized_query): the distance, not 1 - it
numeric_distance(t, col, v, q_val) ==
    IF IsNa(v) \/ IsNa(q_val) THEN Null
    ELSE LET range == col_max(t, col) - col_min(t, col)
         IN  <<100 * Abs(v[1] - q_val[1]), range>>

\* 100 * (1 - abs(normalized_row - normalized_query)); NaN if either is NaN
numeric_similarity(t, col, v, q_val) ==
    IF IsNa(v) \/ IsNa(q_val) THEN Null
    ELSE LET range == col_max(t, col) - col_min(t, col)
         IN  <<100 * (range - Abs(v[1] - q_val[1])), range>>

\* numeric_similarities: lines 69-77, over every column of
\* numeric_cols_in_query that has col_max > col_min
RECURSIVE numeric_similarities(_, _, _, _)
numeric_similarities(cols, t, row, q) ==
    IF cols = <<>> THEN <<>>
    ELSE LET col == Head(cols)
             rest == numeric_similarities(Tail(cols), t, row, q)
         IN  IF has_range(t, col)
             THEN <<numeric_similarity(t, col, row[col], q[col])>> \o rest
             ELSE rest

\* numeric_score without the test mode != 'none'
numeric_score_any_mode(mode, t, row, q) ==
    IF numeric_cols_in_query(q) # <<>>
    THEN LET sims == numeric_similarities(numeric_cols_in_query(q), t, row, q)
         IN  IF sims # <<>> THEN np_mean(sims) ELSE <<0, 1>>
    ELSE <<0, 1>>

numeric_score(mode, t, row, q) ==
    IF mode # "none" /\ numeric_cols_in_query(q) # <<>>
    THEN LET sims == numeric_similarities(numeric_cols_in_query(q), t, row, q)
         IN  IF sims # <<>> THEN np_mean(sims) ELSE <<0, 1>>
    ELSE <<0, 1>>

text_score(row, q) == np_mean(text_similarities(text_cols_in_query(q), row, q))

\* overall_score = numeric_weight * numeric_score + string_weight * text_score
\* with the weights nw/10 and sw/10
overall_score(ns, ts, nw, sw) ==
    IF IsNa(ns) \/ IsNa(ts) THEN Null
    ELSE <<nw * ns[1] * ts[2] + sw * ts[1] * ns[2], 10 * ns[2] * ts[2]>>

\* overall_score >= threshold; a comparison with NaN is False
meets_threshold(score, th) ==
    ~IsNa(score) /\ score[1] >= th * score[2]

\* a row with no usable text field is skipped (line 63)
has_text(row, q) == text_similarities(text_cols_in_query(q), row, q) # <<>>

row_score(mode, t, q, nw, sw, i) ==
    overall_score(numeric_score(mode, t, t[i], q), text_score(t[i], q), nw, sw)

\* results: the (idx, overall_score) pairs appended by the loop of lines 56-82
scored_results(mode, t, q, th, nw, sw) ==
    LET rows == filtered_df(mode, t, q)
        scored == [k \in 1..Len(rows) |->
                      [idx |-> rows[k],
                       score |-> IF has_text(t[rows[k]], q)
                                 THEN row_score(mode, t, q, nw, sw, rows[k])
                                 ELSE Null]]
    IN  SelectSeq(scored, LAMBDA r : meets_threshold(r.score, th))

----------------------------------------------------------------------------
(* Ranker: lines 88-100 *)

\* list.sort without reverse=True: ascending, stable
RECURSIVE list_sort_ascending(_)
list_sort_ascending(s) ==
    IF s = <<>> THEN <<>>
    ELSE LET front == list_sort_ascending(SubSeq(s, 1, Len(s) - 1))
             e == s[Len(s)]
             k == Cardinality({j \in 1..Len(front) : RGeq(e.score, front[j].score)})
         IN  SubSeq(front, 1, k) \o <<e>> \o SubSeq(front, k + 1, Len(front))

\* results.sort(key=lambda x: x[1], reverse=True): list.sort is stable, also
\* with reverse=True, so an element goes after every element whose score is
\* greater than or equal to its own.
RECURSIVE list_sort_reverse(_)
list_sort_reverse(s) ==
    IF s = <<>> THEN <<>>
    ELSE LET front == list_sort_reverse(SubSeq(s, 1, Len(s) - 1))
             e == s[Len(s)]
             k == Cardinality({j \in 1..Len(front) : RGeq(front[j].score, e.score)})
         IN  SubSeq(front, 1, k) \o <<e>> \o SubSeq(front, k + 1, Len(front))

\* results[:limit + 1]
head_one_more(s, n) == SubSeq(s, 1, Min2(n + 1, Len(s)))

\* results[:limit] for limit >= 0
head(s, n) == SubSeq(s, 1, Min2(n, Len(s)))

IsSortedDesc(s) ==
    \A i \in 1..Len(s) : \A j \in 1..Len(s) : i < j => RGeq(s[i].score, s[j].score)

\* result_df.sort_values('similarity_score', ascending=False) sorts with the
\* default kind 'quicksort', which is not a stable sort: every arrangement of
\* the rows that is descending in the score is a possible outcome.
sort_values(s) ==
    LET n == Len(s)
        perms == {f \in [1..n -> 1..n] : \A i \in 1..n : \E j \in 1..n : f[j] = i}
    IN  {r \in {[k \in 1..n |-> s[f[k]]] : f \in perms} : IsSortedDesc(r)}

\* The value _search_with_mode computes before its final sort_values, or
\* "None" (lines 49-51 and 84-86)
final_results(mode, t, q, th, lim, nw, sw) ==
    head(list_sort_reverse(scored_results(mode, t, q, th, nw, sw)), lim)

returns_None(mode, t, q, th, nw, sw) ==
    \/ filtered_df(mode, t, q) = <<>>
    \/ scored_results(mode, t, q, th, nw, sw) = <<>>

----------------------------------------------------------------------------
(* The inputs *)

OptOf(S) == {Null} \cup {<<v>> : v \in S}
Some(S) == {<<v>> : v \in S}

TablesOver(RowSet) == UNION {[1..n -> RowSet] : n \in 0..MaxRows}

Restrict(f, cols) == [c \in cols |-> f[c]]

\* The queries whose index is one of ColSets and whose cells come from the
\* record set FullSet (the cell of a column outside the index plays no part)
QueriesOver(FullSet, ColSets) ==
    UNION {{Restrict(full, cols) : full \in FullSet} : cols \in ColSets}

\* Text evidence and ranking: the numeric columns are constant over the table
TextRows == [bedrooms : Some({3}), sqft : Some({10}),
             state : OptOf({"FL", "TX"}), heating_fuel : OptOf({"Gas"})]
TextQueries ==
    QueriesOver([bedrooms : Some({3}), sqft : Some({10}),
                 state : OptOf({"FL", "FLA"}), heating_fuel : Some({"Gas"})],
                SUBSET {"state", "heating_fuel"})

\* The integer-valued column
IntRows == [bedrooms : Some({3, 4, 5}), sqft : Some({10}),
            state : Some({"FL"}), heating_fuel : {Null}]
IntQueries ==
    QueriesOver([bedrooms : OptOf({4, 6}), sqft : Some({10}),
                 state : Some({"FL"}), heating_fuel : {Null}],
                {{"state"}, {"bedrooms", "state"}, {"bedrooms"}})

\* The real-valued column, with zero, negative and null cells
RealRows == [bedrooms : Some({3}), sqft : OptOf({-10, 0, 8, 10}),
             state : Some({"FL"}), heating_fuel : {Null}]
RealQueries ==
    QueriesOver([bedrooms : Some({3}), sqft : OptOf({-10, 0, 10}),
                 state : Some({"FL"}), heating_fuel : {Null}],
                {{"state"}, {"sqft", "state"}})

\* Both numeric columns and both text columns together
MixedRows == [bedrooms : Some({3, 4}), sqft : Some({10, 12}),
              state : Some({"FL"}), heating_fuel : Some({"Gas"})]
MixedQueries ==
    QueriesOver([bedrooms : OptOf({3}), sqft : OptOf({10}),
                 state : Some({"FL"}), heating_fuel : Some({"Gas"})],
                {c \cup {"state", "heating_fuel"} : c \in SUBSET {"bedrooms", "sqft"}})

----------------------------------------------------------------------------
(* smart_fuzzy_search: the loop of lines 103-109 *)

Modes == <<"strict", "relaxed", "none">>

\* a loop over ['strict', 'none', 'relaxed']
next_mode_reordered(mode) ==
    CASE mode = "strict" -> "none"
      [] mode = "none" -> "relaxed"
      [] mode = "relaxed" -> "exhausted"

next_mode(mode) ==
    CASE mode = "strict" -> "relaxed"
      [] mode = "relaxed" -> "none"
      [] mode = "none" -> "exhausted"

\* the frames smart_fuzzy_search can return: the frame of the first pass
\* that is not None, the empty frame when every pass is None
smart_fuzzy_search(t, q, th, lim, nw, sw) ==
    LET found == {k \in 1..Len(Modes) : ~returns_None(Modes[k], t, q, th, nw, sw)}
    IN  IF found = {} THEN {<<>>}
        ELSE LET k == CHOOSE j \in found : \A x \in found : j <= x
             IN  sort_values(final_results(Modes[k], t, q, th, lim, nw, sw))

NoResponse == [status |-> 0, error |-> "", missing |-> <<>>, message |-> ""]

\* a direct call of smart_fuzzy_search: no request is being handled
NoRequest ==
    /\ data = <<>>
    /\ characteristics_csv = TRUE
    /\ time_series_csv = TRUE
    /\ ts_bldg_ids = {}
    /\ hpc = "idle"
    /\ analyses = <<>>
    /\ predict_calls = 0
    /\ response = NoResponse

InitWith(RowSet, QuerySet) ==
    /\ df \in TablesOver(RowSet)
    /\ query_row \in QuerySet
    /\ \E p \in SearchParams :
          threshold = p[1] /\ numeric_weight = p[2] /\ string_weight = p[3]
    /\ limit \in 0..MaxLimit
    /\ pc = "strict"
    /\ tried = <<>>
    /\ result = <<>>
    /\ returned_by = "pending"
    /\ NoRequest

Init ==
    \/ InitWith(TextRows, TextQueries)
    \/ InitWith(IntRows, IntQueries)
    \/ InitWith(RealRows, RealQueries)
    \/ InitWith(MixedRows, MixedQueries)

\* _search_with_mode(mode) returns None: the loop goes on to the next mode
PassFails(mode) ==
    /\ pc = mode
    /\ returns_None(mode, df, query_row, threshold, numeric_weight, string_weight)
    /\ tried' = Append(tried, mode)
    /\ pc' = next_mode(mode)
    /\ UNCHANGED <<inputs, result, returned_by, request>>

\* _search_with_mode(mode) returns a frame: smart_fuzzy_search returns it
PassSucceeds(mode) ==
    /\ pc = mode
    /\ ~returns_None(mode, df, query_row, threshold, numeric_weight, string_weight)
    /\ tried' = Append(tried, mode)
    /\ result' \in sort_values(final_results(mode, df, query_row, threshold, limit,
                                             numeric_weight, string_weight))
    /\ returned_by' = mode
    /\ pc' = "done"
    /\ UNCHANGED <<inputs, request>>

\* the loop ends by returning the last pass's frame without its threshold
ReturnLastFrame ==
    /\ pc = "exhausted"
    /\ result' = [k \in 1..Len(df) |-> [idx |-> k, score |-> <<0, 1>>]]
    /\ returned_by' = "exhausted"
    /\ pc' = "done"
    /\ UNCHANGED <<inputs, tried, request>>

\* the loop ended without a result: return pd.DataFrame() (line 109)
ReturnEmpty ==
    /\ pc = "exhausted"
    /\ result' = <<>>
    /\ returned_by' = "exhausted"
    /\ pc' = "done"
    /\ UNCHANGED <<inputs, tried, request>>

Next ==
    \/ \E mode \in {"strict", "relaxed", "none"} : PassFails(mode)
    \/ \E mode \in {"strict", "relaxed", "none"} : PassSucceeds(mode)
    \/ ReturnEmpty

Spec == Init /\ [][Next]_vars

----------------------------------------------------------------------------
(* The three-row scenario: rows 1 and 2 are {state FL, bedrooms 3}, row 3   *)
(* is {state TX, bedrooms 9}; the cells of the columns the scenario does    *)
(* not name are free.  smart_fuzzy_search is called on it with its default  *)
(* limit or with limit 1.                                                   *)

DefaultLimit == 10

ScenarioState == <<"FL", "FL", "TX">>
ScenarioBedrooms == <<3, 3, 9>>

ScenarioTables ==
    {[i \in 1..3 |-> [bedrooms |-> <<ScenarioBedrooms[i]>>,
                      sqft |-> s[i],
                      state |-> <<ScenarioState[i]>>,
                      heating_fuel |-> h[i]]] :
        s \in [1..3 -> OptOf({10, 12})], h \in [1..3 -> OptOf({"Gas"})]}

ScenarioQuery == [bedrooms |-> <<3>>, state |-> <<"FL">>]

ScenarioQueries ==
    QueriesOver([bedrooms : Some({3, 6}), sqft : Some({10}),
                 state : Some({"FL", "TX"}), heating_fuel : {Null}],
                {{"bedrooms", "state"}, {"bedrooms"}})

InitScenario ==
    /\ df \in ScenarioTables
    /\ query_row \in ScenarioQueries
    /\ \E p \in SearchParams :
          threshold = p[1] /\ numeric_weight = p[2] /\ string_weight = p[3]
    /\ limit \in {1, DefaultLimit}
    /\ pc = "strict"
    /\ tried = <<>>
    /\ result = <<>>
    /\ returned_by = "pending"
    /\ NoRequest

SpecScenario == InitScenario /\ [][Next]_vars

----------------------------------------------------------------------------
(* POST /building-data: app.py building_data, inference.py make_prediction *)
(* and data_processing.py run_full_analysis.                               *)
(*                                                                         *)
(* The JSON body `data` is a function from keys to optional values (<<>>   *)
(* is JSON null); the keys "state", "sqft" and "bedrooms" stand for        *)
(* 'in.state', 'in.sqft..ft2' and 'in.bedrooms'.  The table df is the      *)
(* content of the characteristics file, the bldg_id of row i is i, and     *)
(* ts_bldg_ids are the building ids that have rows in the time-series      *)
(* file.  threshold, limit and the weights hold the arguments of the call  *)
(* of smart_fuzzy_search at line 281.                                      *)

AnalysisThreshold == 60
AnalysisLimit == 5

\* data.get(key)
Get(d, key) == IF key \in DOMAIN d THEN d[key] ELSE Null

\* the list `missing` without the test of the value: absent keys only
missing_absent_only(d) ==
    (IF "state" \notin DOMAIN d THEN <<"in.state">> ELSE <<>>)
        \o (IF "sqft" \notin DOMAIN d THEN <<"in.sqft..ft2">> ELSE <<>>)

\* the list `missing` of app.py lines 33-37
missing(d) ==
    (IF IsNa(Get(d, "state")) THEN <<"in.state">> ELSE <<>>)
        \o (IF IsNa(Get(d, "sqft")) THEN <<"in.sqft..ft2">> ELSE <<>>)

\* `if bedrooms:` the optional parameter is neither None nor 0
Truthy(v) == ~IsNa(v) /\ v[1] # 0

\* the query of inference.py lines 30-55
full_query(d) ==
    Restrict(d, {"state", "sqft"}
                    \cup (IF Truthy(Get(d, "bedrooms")) THEN {"bedrooms"} ELSE {}))

\* relaxed_query of lines 69-72
relaxed_query(d) == Restrict(d, {"state", "sqft"})

\* what run_full_analysis does once both files are read and the search gave
\* `frame`: None when the frame is empty (282-284), None when the time series
\* has no row of the frame's buildings (141-143, 288-290), else the profile
outcome_of(frame) ==
    IF frame = <<>> THEN "no_similar_buildings"
    ELSE IF RowIdx(frame) \cap ts_bldg_ids = {} THEN "no_time_series_rows"
    ELSE "profile"

\* the outcomes run_full_analysis(query) can have; a file that is absent
\* makes read_csv raise FileNotFoundError (272-278)
run_full_analysis(q) ==
    IF ~characteristics_csv \/ ~time_series_csv THEN {"file_not_found"}
    ELSE {outcome_of(frame) :
             frame \in smart_fuzzy_search(df, q, threshold, limit,
                                          numeric_weight, string_weight)}

\* the value run_full_analysis returns for an outcome
returned_value(outcome) == IF outcome = "profile" THEN "profile" ELSE "None"

\* the retry test without its condition
always_retry(outcome) == TRUE

\* context_df is None or context_df.empty (lines 65 and 80)
no_profile(outcome) == returned_value(outcome) = "None"

BadRequest(d) ==
    [status |-> 400, error |-> "Missing required parameters",
     missing |-> missing(d), message |-> ""]

\* the ValueError of lines 81-84, caught at app.py 95-100
NotFound ==
    [status |-> 404, error |-> "Data processing error", missing |-> <<>>,
     message |-> "No similar buildings found in database"]

\* the three ends of pipeline.predict_df: it returns (200), it raises a
\* ValueError (404 with its own message) or another exception (500)
PredictResponses ==
    {[status |-> 200, error |-> "", missing |-> <<>>, message |-> "success"],
     [status |-> 404, error |-> "Data processing error", missing |-> <<>>,
      message |-> "predict_df"],
     [status |-> 500, error |-> "Internal server error", missing |-> <<>>,
      message |-> "predict_df"]}

ApiRows == [bedrooms : Some({3, 4}), sqft : Some({10, 12}),
            state : Some({"FL"}), heating_fuel : {Null}]

Bodies ==
    QueriesOver([bedrooms : OptOf({0, 3, 9}), sqft : OptOf({10}),
                 state : OptOf({"FL", "TX"}), heating_fuel : {Null}],
                SUBSET {"state", "sqft", "bedrooms"})

InitApi ==
    /\ df \in TablesOver(ApiRows)
    /\ data \in Bodies
    /\ characteristics_csv \in BOOLEAN
    /\ time_series_csv \in BOOLEAN
    /\ ts_bldg_ids \in SUBSET Indices(df)
    /\ threshold = AnalysisThreshold
    /\ limit = AnalysisLimit
    /\ numeric_weight = 7
    /\ string_weight = 3
    /\ query_row = <<>>
    /\ pc = "done"
    /\ tried = <<>>
    /\ result = <<>>
    /\ returned_by = "pending"
    /\ hpc = "request"
    /\ analyses = <<>>
    /\ predict_calls = 0
    /\ response = NoResponse

\* building_data lines 25-42: a required parameter that is None ends the
\* request with 400, otherwise make_prediction is called
Validate ==
    /\ hpc = "request"
    /\ IF missing(data) # <<>>
       THEN /\ response' = BadRequest(data)
            /\ hpc' = "responded"
       ELSE /\ response' = response
            /\ hpc' = "make_prediction"
    /\ UNCHANGED <<df, search, data, characteristics_csv, time_series_csv,
                   ts_bldg_ids, analyses, predict_calls>>

\* make_prediction lines 30-65: the analysis with the full query
FirstAnalysis ==
    /\ hpc = "make_prediction"
    /\ \E outcome \in run_full_analysis(full_query(data)) :
          /\ analyses' = Append(analyses, [query |-> full_query(data),
                                           outcome |-> outcome])
          /\ hpc' = IF no_profile(outcome) THEN "retry" ELSE "predict"
    /\ UNCHANGED <<df, search, data, characteristics_csv, time_series_csv,
                   ts_bldg_ids, predict_calls, response>>

\* lines 66-84: the analysis with state and sqft only; without a profile the
\* ValueError goes to the handler, which answers 404
SecondAnalysis ==
    /\ hpc = "retry"
    /\ \E outcome \in run_full_analysis(relaxed_query(data)) :
          /\ analyses' = Append(analyses, [query |-> relaxed_query(data),
                                           outcome |-> outcome])
          /\ IF no_profile(outcome)
             THEN response' = NotFound /\ hpc' = "responded"
             ELSE response' = response /\ hpc' = "predict"
    /\ UNCHANGED <<df, search, data, characteristics_csv, time_series_csv,
                   ts_bldg_ids, predict_calls>>

\* lines 86-140 and app.py 73-107: the pipeline is called with the profile
Predict ==
    /\ hpc = "predict"
    /\ predict_calls' = predict_calls + 1
    /\ response' \in PredictResponses
    /\ hpc' = "responded"
    /\ UNCHANGED <<df, search, data, characteristics_csv, time_series_csv,
                   ts_bldg_ids, analyses>>

NextApi ==
    \/ Validate
    \/ FirstAnalysis
    \/ SecondAnalysis
    \/ Predict

SpecApi == InitApi /\ [][NextApi]_vars

----------------------------------------------------------------------------
(* Properties of the matcher *)

Returned == pc = "done"
ReturnedByPass == pc = "done" /\ returned_by \in {"strict", "relaxed", "none"}

FilteredSet(mode) == SeqSet(filtered_df(mode, df, query_row))

\* the numeric columns that are in the query with a non-null value
ActiveNumericCols(q) ==
    {c \in SeqSet(NumericCols) : c \in DOMAIN q /\ ~IsNa(q[c])}

\* the query without its numeric columns whose value is null
WithoutNullNumeric(q) ==
    Restrict(q, {c \in DOMAIN q : c \in SeqSet(NumericCols) => ~IsNa(q[c])})

\* the score line 80 gives row i in the pass `mode`, for the inputs of the run
ScoreIn(mode, i) ==
    row_score(mode, df, query_row, numeric_weight, string_weight, i)

\* row i has a text column that is non-null in the row and in the query
TextOverlap(i) ==
    \E col \in SeqSet(TextCols) :
        /\ col \in DOMAIN query_row
        /\ ~IsNa(query_row[col])
        /\ ~IsNa(df[i][col])

\* row i qualifies in the pass `mode`: it passes the filter, has text
\* evidence and a combined score that reaches the threshold
Qualifies(mode, i) ==
    /\ i \in SeqSet(filtered_df(mode, df, query_row))
    /\ TextOverlap(i)
    /\ ~IsNa(ScoreIn(mode, i))
    /\ ScoreIn(mode, i)[1] >= threshold * ScoreIn(mode, i)[2]

Qualifying(mode) == {i \in Indices(df) : Qualifies(mode, i)}

\* C1: the search returns at most `limit` rows, in non-increasing order of
\* similarity_score.
C1_AtMostLimitSortedDesc ==
    Returned =>
        /\ Len(result) <= limit
        /\ \A j \in 1..Len(result) : \A k \in 1..Len(result) :
               j < k => result[j].score[1] * result[k].score[2]
                          >= result[k].score[1] * result[j].score[2]

\* C1 witness: more rows qualify than the limit allows, and the rows that
\* are returned come out in the reverse of the table order
C1_Witness ==
    /\ ReturnedByPass
    /\ Len(result) = 2
    /\ limit = 2
    /\ result[1].idx > result[2].idx
    /\ RGt(result[1].score, result[2].score)

\* C2: the passes run in the order strict, relaxed, none, each at most once;
\* every pass before the last one run had no qualifying row; a pass with a
\* qualifying row ends the search with that pass's rows and scores, and no
\* pass runs after it (the returning pass stays the last one run).
C2_LinearFallback ==
    LET n == Len(tried)
        last == Qualifying(tried[n])
    IN  /\ n <= 3
        /\ \A k \in 1..n : tried[k] = Modes[k]
        /\ \A k \in 1..(n - 1) : Qualifying(tried[k]) = {}
        /\ (n > 0 /\ last # {}) => (pc = "done" /\ returned_by = tried[n])
        /\ (n > 0 /\ last = {}) => pc \in {next_mode(tried[n]), "done"}
        /\ (n > 0 /\ last = {} /\ pc = "done") => returned_by = "exhausted"
        /\ ReturnedByPass =>
               /\ tried[n] = returned_by
               /\ last # {}
               /\ \A k \in 1..Len(result) :
                      /\ result[k].idx \in last
                      /\ REq(result[k].score, ScoreIn(returned_by, result[k].idx))

\* C2 witness: the strict pass had an empty filtered set, the relaxed pass
\* had filtered rows but none reaching the threshold, and the none pass
\* returned rows
C2_Witness ==
    /\ ReturnedByPass
    /\ returned_by = "none"
    /\ tried = <<"strict", "relaxed", "none">>
    /\ result # <<>>
    /\ FilteredSet("strict") = {}
    /\ FilteredSet("relaxed") # {}

\* C3: when no pass has a qualifying row (an empty table included) the search
\* goes through the three passes and returns an empty frame; until it has
\* returned, the run always has a step to take (no pass fails to produce its
\* value).
C3_EmptyWhenNoPassQualifies ==
    /\ (Returned /\ \A m \in SeqSet(Modes) : Qualifying(m) = {}) =>
           /\ result = <<>>
           /\ returned_by = "exhausted"
           /\ tried = Modes
    /\ ~Returned =>
           \/ pc = "exhausted"
           \/ /\ pc \in SeqSet(Modes)
              /\ LET sr == scored_results(pc, df, query_row, threshold,
                                          numeric_weight, string_weight)
                 IN  \/ sr = <<>>
                     \/ sort_values(head(list_sort_reverse(sr), limit)) # {}

\* C3 witness: a table with rows, none qualifying in any pass, has been searched
C3_Witness ==
    /\ Returned
    /\ returned_by = "exhausted"
    /\ df # <<>>
    /\ filtered_df("strict", df, query_row) # <<>>
    /\ \A m \in SeqSet(Modes) : Qualifying(m) = {}

\* C4: a row with no text field that is non-null in the row and in the query
\* is never returned.
C4_NoTextNoResult ==
    Returned => \A k \in 1..Len(result) : TextOverlap(result[k].idx)

\* C4 witness: with a threshold below zero, a row without text evidence
\* passed the filter of the returning pass and is not among the returned rows
C4_Witness ==
    /\ ReturnedByPass
    /\ threshold < 0
    /\ Len(result) < limit
    /\ \E i \in SeqSet(filtered_df(returned_by, df, query_row)) :
           ~TextOverlap(i) /\ i \notin RowIdx(result)

\* C5: the returned rows are the first `limit` rows, by descending combined
\* score, of the rows that qualify in the returning pass: each has its
\* combined score, which is >= threshold, and no row of the pass's filtered
\* set that was left out has a score strictly greater than a returned row's.
C5_TopLimitOfQualifying ==
    ReturnedByPass =>
        LET qual == Qualifying(returned_by)
            left == {i \in FilteredSet(returned_by) \ RowIdx(result) :
                        TextOverlap(i) /\ ~IsNa(ScoreIn(returned_by, i))}
        IN  /\ RowIdx(result) \subseteq qual
            /\ Cardinality(RowIdx(result)) = Len(result)
            /\ Len(result) = Min2(limit, Cardinality(qual))
            /\ \A k \in 1..Len(result) :
                   /\ REq(result[k].score, ScoreIn(returned_by, result[k].idx))
                   /\ result[k].score[1] >= threshold * result[k].score[2]
            /\ \A i \in left : \A k \in 1..Len(result) :
                   ~RGt(ScoreIn(returned_by, i), result[k].score)

\* C5 witness: two rows qualify, the limit is 1, and the row returned is the
\* second of the table, with the strictly greater score
C5_Witness ==
    /\ ReturnedByPass
    /\ limit = 1
    /\ Cardinality(Qualifying(returned_by)) = 2
    /\ Len(result) = 1
    /\ result[1].idx = 2
    /\ \E i \in Qualifying(returned_by) :
           RGt(result[1].score, ScoreIn(returned_by, i))

\* C6: for the table and query of any search, loosening the pass mode only
\* widens the candidate set of the numeric filter: filtered(strict) is within filtered(relaxed), which is within
\* filtered(none), the whole table.
C6_MonotonicBandWidening ==
    Returned =>
        LET strict == FilteredSet("strict")
            relaxed == FilteredSet("relaxed")
        IN  /\ strict \subseteq relaxed
            /\ relaxed \subseteq FilteredSet("none")
            /\ filtered_df("none", df, query_row) = [i \in Indices(df) |-> i]

\* C6 witness: a search has run on a query whose three candidate sets differ
C6_Witness ==
    /\ Returned
    /\ ActiveNumericCols(query_row) # {}
    /\ FilteredSet("strict") # FilteredSet("relaxed")
    /\ FilteredSet("relaxed") # FilteredSet("none")

\* C7: a row whose value in a numeric field equals the query's value for that
\* field passes that field's band in every pass mode, for integer-valued and
\* real-valued fields and for every query value, negative values included.
C7_EqualValuePassesEveryBand ==
    Returned =>
        \A i \in Indices(df) : \A col \in ActiveNumericCols(query_row) :
            df[i][col] = query_row[col] =>
                \A m \in SeqSet(Modes) :
                    band_mask(m, col, df[i][col], query_row[col])

\* C8: every similarity_score of a returned row lies in [0, 100].
C8_ScoreWithin0And100 ==
    Returned =>
        \A k \in 1..Len(result) :
            /\ result[k].score[1] >= 0
            /\ result[k].score[1] <= 100 * result[k].score[2]

C10_NullOrAbsentFieldNoConstraint ==
    Returned => \A m \in SeqSet(Modes) :
        /\ filtered_df(m, df, query_row)
               = filtered_df(m, df, WithoutNullNumeric(query_row))
        /\ FilteredSet(m)
               = {i \in Indices(df) :
                     \A c \in ActiveNumericCols(query_row) :
                         band_mask(m, c, df[i][c], query_row[c])}

\* C10 witness: a search has run on a query with one null and one non-null
\* numeric field, whose strict filter drops a row
C10_Witness ==
    /\ Returned
    /\ \E c \in SeqSet(NumericCols) : c \in DOMAIN query_row /\ IsNa(query_row[c])
    /\ ActiveNumericCols(query_row) # {}
    /\ FilteredSet("strict") # Indices(df)
    /\ FilteredSet("strict") # {}

\* the numeric columns of the query whose table column holds two different
\* values (max > min)
RangedCols(q) ==
    {c \in SeqSet(numeric_cols_in_query(q)) :
        \E i \in Indices(df) : \E j \in Indices(df) :
            ~IsNa(df[i][c]) /\ ~IsNa(df[j][c]) /\ df[i][c][1] < df[j][c][1]}

\* C11: a numeric field that is constant over the table (max = min) is
\* skipped in the numeric score: no similarity is computed with a zero
\* range, the field never contributes to the mean (the score is the one of
\* the query without the constant fields), and when no numeric field of the
\* query has max > min the numeric score of every row is 0 in the strict and
\* the relaxed pass.
C11_ConstantColumnSkipped ==
    Returned =>
        LET cols == numeric_cols_in_query(query_row)
            ranged == RangedCols(query_row)
            q_ranged == Restrict(query_row,
                                 {c \in DOMAIN query_row :
                                     c \in SeqSet(NumericCols) => c \in ranged})
        IN  \A i \in Indices(df) :
                LET sims == numeric_similarities(cols, df, df[i], query_row)
                IN  /\ Len(sims) = Cardinality(ranged)
                    /\ \A k \in 1..Len(sims) : ~IsNa(sims[k]) => sims[k][2] > 0
                    /\ \A m \in {"strict", "relaxed"} :
                           LET ns == numeric_score(m, df, df[i], query_row)
                           IN  /\ ~IsNa(ns) => ns[2] > 0
                               /\ ns = numeric_score(m, df, df[i], q_ranged)
                               /\ ranged = {} => ns = <<0, 1>>

\* C11 witness: a search returned rows for a query with a non-null value in
\* a numeric column that is constant over a two-row table and in one that
\* is not
C11_Witness ==
    /\ ReturnedByPass
    /\ returned_by = "strict"
    /\ Len(df) = 2
    /\ result # <<>>
    /\ RangedCols(query_row) # {}
    /\ \E c \in ActiveNumericCols(query_row) : c \notin RangedCols(query_row)

\* C15: in the none pass the filter keeps every row and the numeric score of
\* every row is 0, so the combined score of a row with text evidence is
\* string_weight * text_score and the row is in the results of the pass iff
\* that value reaches the threshold; with the default weights 0.7 / 0.3 and
\* the default threshold 70 the none pass has no result and the search never
\* returns from it.
C15_NonePassTextOnly ==
    Returned =>
        LET kept == RowIdx(scored_results("none", df, query_row, threshold,
                                          numeric_weight, string_weight))
        IN  /\ FilteredSet("none") = Indices(df)
            /\ \A i \in Indices(df) :
                   /\ numeric_score("none", df, df[i], query_row) = <<0, 1>>
                   /\ ~TextOverlap(i) => i \notin kept
                   /\ TextOverlap(i) =>
                          LET ts == text_score(df[i], query_row)
                              s == ScoreIn("none", i)
                          IN  /\ ~IsNa(ts) /\ ~IsNa(s)
                              /\ REq(s, <<string_weight * ts[1], 10 * ts[2]>>)
                              /\ i \in kept <=>
                                     string_weight * ts[1] >= threshold * 10 * ts[2]
            /\ (threshold = 70 /\ numeric_weight = 7 /\ string_weight = 3) =>
                   kept = {} /\ returned_by # "none"

\* C15 witness: the none pass returned a row for a query with a non-null
\* value in a numeric column that has a range
C15_Witness ==
    /\ Returned
    /\ returned_by = "none"
    /\ result # <<>>
    /\ RangedCols(query_row) \cap ActiveNumericCols(query_row) # {}

\* C16: in the strict and the relaxed pass the numeric score of a row is the
\* mean over the numeric fields that are in the query with a non-null value
\* and have max > min in the table, and a numeric field whose query value is
\* null changes nothing: the search returns what it returns for the query
\* without that field.
C16_NullNumericFieldSameAsAbsent ==
    Returned =>
        /\ \A i \in Indices(df) : \A m \in {"strict", "relaxed"} :
               numeric_score(m, df, df[i], query_row)
                   = numeric_score(m, df, df[i], WithoutNullNumeric(query_row))
        /\ result \in smart_fuzzy_search(df, WithoutNullNumeric(query_row), threshold,
                                          limit, numeric_weight, string_weight)

\* the required fields that are absent from the body or null in it
RequiredLacking ==
    {f \in {"in.state", "in.sqft..ft2"} :
        LET key == IF f = "in.state" THEN "state" ELSE "sqft"
        IN  key \notin DOMAIN data \/ data[key] = Null}

\* C12: when the body lacks 'in.state' or 'in.sqft..ft2' (absent or null) the
\* handler answers 400 with a `missing` list that holds exactly the lacking
\* required fields, and make_prediction is never called: no analysis is run
\* and the pipeline is not called.  A body with both fields never gets 400.
C12_MissingRequiredRejected ==
    /\ (hpc # "request" /\ RequiredLacking # {}) =>
           /\ hpc = "responded"
           /\ response.status = 400
           /\ response.error = "Missing required parameters"
           /\ SeqSet(response.missing) = RequiredLacking
           /\ Len(response.missing) = Cardinality(RequiredLacking)
           /\ analyses = <<>>
           /\ predict_calls = 0
    /\ response.status = 400 => RequiredLacking # {}

\* C12 witness: a body with a null 'in.state' and a value for 'in.sqft..ft2'
\* was answered
C12_Witness ==
    /\ hpc = "responded"
    /\ "state" \in DOMAIN data /\ data["state"] = Null
    /\ "sqft" \in DOMAIN data /\ data["sqft"] # Null
    /\ response.missing = <<"in.state">>

DataUnavailable == {"file_not_found", "no_time_series_rows"}

\* C13: a data-availability failure (a file is absent, or the time series has
\* no row of the matched buildings) is distinguishable from 'no similar
\* buildings found': run_full_analysis does not return for it the value it
\* returns for an empty search, and a request whose last analysis ended on it
\* is not answered with the response of a request without similar buildings.
C13_DataUnavailableDistinct ==
    /\ \A k \in 1..Len(analyses) :
           analyses[k].outcome \in DataUnavailable =>
               returned_value(analyses[k].outcome)
                   # returned_value("no_similar_buildings")
    /\ (hpc = "responded" /\ analyses # <<>>
            /\ analyses[Len(analyses)].outcome \in DataUnavailable) =>
           response # NotFound

\* C17: make_prediction runs the analysis with the full query first, runs a
\* second one with state and sqft only, and only when the first gave no
\* profile, and never a third; when neither gives a profile the request is
\* answered 404 and the pipeline was never called; when one gives a profile
\* the pipeline is called exactly once; the pipeline is never called before
\* a profile exists.
C17_AtMostTwoAnalysesOnePrediction ==
    LET n == Len(analyses)
        profiles == {k \in 1..n : analyses[k].outcome = "profile"}
    IN  /\ n <= 2
        /\ predict_calls <= 1
        /\ n >= 1 =>
               /\ DOMAIN analyses[1].query
                      = {"state", "sqft"}
                            \cup {c \in {"bedrooms"} :
                                     /\ c \in DOMAIN data
                                     /\ data[c] # Null
                                     /\ data[c] # <<0>>}
               /\ \A c \in DOMAIN analyses[1].query :
                      analyses[1].query[c] = data[c]
        /\ n = 2 =>
               /\ 1 \notin profiles
               /\ DOMAIN analyses[2].query = {"state", "sqft"}
               /\ \A c \in {"state", "sqft"} : analyses[2].query[c] = data[c]
        /\ predict_calls = 1 => profiles = {n} /\ hpc = "responded"
        /\ (hpc = "responded" /\ n >= 1) =>
               IF profiles = {}
               THEN /\ n = 2
                    /\ predict_calls = 0
                    /\ response.status = 404
                    /\ response.error = "Data processing error"
               ELSE /\ predict_calls = 1
                    /\ response \in PredictResponses

\* C17 witness: the first analysis gave no profile, the second gave one and
\* the request was answered after one call of the pipeline
C17_Witness ==
    /\ hpc = "responded"
    /\ Len(analyses) = 2
    /\ analyses[1].outcome # "profile"
    /\ analyses[2].outcome = "profile"
    /\ analyses[1].query # analyses[2].query
    /\ predict_calls = 1
    /\ response.status = 200

\* C14: for the table {1: FL, 3}, {2: FL, 3}, {3: TX, 9} and the query
\* {state FL, bedrooms 3} with the default threshold, weights and limit, the
\* strict pass keeps rows 1 and 2 only, each with text score 100 and numeric
\* score 100, and the search returns exactly rows 1 and 2 with score 100
\* from the strict pass.
C14_ScenarioReturnsRows1And2 ==
    (/\ query_row = ScenarioQuery
     /\ threshold = 70 /\ numeric_weight = 7 /\ string_weight = 3
     /\ limit = DefaultLimit) =>
        /\ FilteredSet("strict") = {1, 2}
        /\ \A i \in {1, 2} :
               /\ REq(text_score(df[i], query_row), <<100, 1>>)
               /\ REq(numeric_score("strict", df, df[i], query_row), <<100, 1>>)
        /\ Returned =>
               /\ returned_by = "strict"
               /\ tried = <<"strict">>
               /\ Len(result) = 2
               /\ RowIdx(result) = {1, 2}
               /\ \A k \in 1..Len(result) : REq(result[k].score, <<100, 1>>)

\* C14 witness: the search of the scenario has returned
C14_Witness ==
    /\ Returned
    /\ query_row = ScenarioQuery
    /\ threshold = 70 /\ numeric_weight = 7 /\ string_weight = 3
    /\ limit = DefaultLimit
    /\ RowIdx(result) = {1, 2}

====
